---- MODULE Spec2Model ----
\* Model of app.py: the "Process Movies" handler (authenticate, then one pass
\* over the titles through Resolve, Fetch, Caption, Enhance, Metadata,
\* Thumbnail, Publish under a single try/except) and the stage functions it
\* calls.  External services (web sites, pytube, moviepy, the text service,
\* the OAuth flow) are the environment: each call draws its outcome from a
\* small set.
EXTENDS Integers, Sequences, FiniteSets, TLC

VARIABLES
    movie_names,      \* the titles of the text area, one per line
    run,              \* number of times the button has triggered the handler
    pc,               \* position of the handler
    i,                \* index in movie_names of the title being processed
    youtube,          \* the authenticated client, or None
    authCalls,        \* calls of authenticate_youtube in the current run
    trailer_url,      \* locals of the loop body
    downloaded_video,
    subtitled_video,
    enhanced_video,
    seo,              \* <<title, description, tags>>
    thumbnail_path,
    video_id,
    trace,            \* stage calls of the current run, in order
    ui,               \* messages shown by the current run, in order
    files,            \* the working directories: path -> run that wrote it
    history           \* per completed thumbnail stage: the paths the item produced

vars == <<movie_names, run, pc, i, youtube, authCalls, trailer_url,
          downloaded_video, subtitled_video, enhanced_video, seo,
          thumbnail_path, video_id, trace, ui, files, history>>

locals == <<trailer_url, downloaded_video, subtitled_video, enhanced_video,
            seo, thumbnail_path, video_id>>

\* ---------------------------------------------------------------- bounds
MaxBatch == 2
MaxRuns == 2

Movies == {"Dune", "UnknownMovieXYZ123"}

Batches == UNION {[1..n -> Movies] : n \in 0..MaxBatch}

None == "None"

Stages == <<"Resolve", "Fetch", "Caption", "Enhance", "Metadata", "Thumbnail", "Publish">>

\* ---------------------------------------------------------------- helpers
Last(s) == s[Len(s)]

Msg(level, text) == [level |-> level, text |-> text]

Call(stage, env, result) ==
    [i |-> i, movie |-> movie_names[i], stage |-> stage, env |-> env, result |-> result]

\* os.path: a path is a directory, a stem and an extension
basename(path) == [stem |-> path.stem, ext |-> path.ext]

splitext0(base) == base.stem

\* faulty variant: every run writes into a directory of its own
join_per_run(output_dir, base) ==
    [dir |-> output_dir \o "/run" \o ToString(run), stem |-> base.stem, ext |-> base.ext]

join(output_dir, base) == [dir |-> output_dir, stem |-> base.stem, ext |-> base.ext]

WriteFile(fs, path) ==
    [p \in (DOMAIN fs) \cup {path} |-> IF p = path THEN run ELSE fs[p]]

\* ------------------------------------------------------- get_trailer_url
PrimaryOutcomes ==
    {"raise", "search_non200", "no_result", "page_non200", "no_trailer", "found"}

SecondaryOutcomes == {"raise", "non200", "no_video", "found"}

\* lines 58-77: the YouTube search
secondary_lookup(movie_name, s) ==
    CASE s = "non200" ->
           [url |-> None,
            msgs |-> <<Msg("error", "Failed to fetch data from YouTube for " \o movie_name)>>]
      [] s = "found" ->
           [url |-> "https://www.youtube.com/watch?v=" \o movie_name, msgs |-> <<>>]
      [] s = "raise" ->
           [url |-> None,
            msgs |-> <<Msg("error", "Error fetching trailer from YouTube for " \o movie_name)>>]
      [] OTHER -> [url |-> None, msgs |-> <<>>]

\* lines 30-77.  p and s are what the two sites would answer; requests is
\* the sequence of lookups actually made.
get_trailer_url(movie_name, p, s) ==
    LET warn == Msg("warning", "No trailer found on Rotten Tomatoes for " \o movie_name
                               \o ". Searching on YouTube...")
        fallback(pre) ==
            LET y == secondary_lookup(movie_name, s)
            IN  [url |-> y.url, msgs |-> pre \o <<warn>> \o y.msgs,
                 requests |-> <<<<"rottentomatoes", p>>, <<"youtube", s>>>>]
    IN  CASE p = "search_non200" ->
               [url |-> None,
                msgs |-> <<Msg("error", "Failed to fetch data from Rotten Tomatoes for "
                                        \o movie_name)>>,
                requests |-> <<<<"rottentomatoes", p>>>>]
          [] p = "page_non200" ->
               [url |-> None,
                msgs |-> <<Msg("error", "Failed to fetch movie page for " \o movie_name)>>,
                requests |-> <<<<"rottentomatoes", p>>>>]
          [] p = "found" ->
               [url |-> "https://www.rottentomatoes.com/trailer/" \o movie_name,
                msgs |-> <<>>,
                requests |-> <<<<"rottentomatoes", p>>>>]
          [] p = "raise" ->
               fallback(<<Msg("error", "Error fetching trailer from Rotten Tomatoes for "
                                       \o movie_name)>>)
          [] OTHER -> fallback(<<>>)

\* ------------------------------------------------------------ the handler
Init ==
    /\ movie_names \in Batches
    /\ run = 0
    /\ pc = "idle"
    /\ i = 0
    /\ youtube = None
    /\ authCalls = 0
    /\ trailer_url = None
    /\ downloaded_video = None
    /\ subtitled_video = None
    /\ enhanced_video = None
    /\ seo = None
    /\ thumbnail_path = None
    /\ video_id = None
    /\ trace = <<>>
    /\ ui = <<>>
    /\ files = <<>>
    /\ history = <<>>

\* line 255
ErrorOccurred(e) == Msg("error", "An error occurred: " \o e)

\* faulty variant: the error is swallowed and the loop goes on
ExceptPcContinue == "loop"

\* lines 254-255: where the handler goes when a stage raises
ExceptPc == "done"

\* faulty variant: the thumbnail is made before the metadata exists
AfterStageSkipsMetadata(stage) ==
    CASE stage = "Resolve" -> "fetch"
      [] stage = "Fetch" -> "caption"
      [] stage = "Caption" -> "enhance"
      [] stage = "Enhance" -> "thumbnail"
      [] stage = "Metadata" -> "thumbnail"
      [] stage = "Thumbnail" -> "publish"

\* lines 224-251: the statement order of the loop body: where the handler
\* goes when a stage returned
AfterStage(stage) ==
    CASE stage = "Resolve" -> "fetch"
      [] stage = "Fetch" -> "caption"
      [] stage = "Caption" -> "enhance"
      [] stage = "Enhance" -> "metadata"
      [] stage = "Metadata" -> "thumbnail"
      [] stage = "Thumbnail" -> "publish"

\* lines 214-215: the for statement, entered with index n
LoopPc(n) == IF n <= Len(movie_names) THEN "loop" ELSE "done"

LoopMsgs(n) ==
    IF n <= Len(movie_names)
    THEN <<Msg("write", "Processing movie: " \o movie_names[n])>>
    ELSE <<>>

\* line 210: the button is pressed
Trigger ==
    /\ pc = "idle"
    /\ run' = run + 1
    /\ pc' = "auth"
    /\ UNCHANGED <<movie_names, i, youtube, authCalls, locals, trace, ui, files, history>>

\* lines 172-177
authenticate_youtube(flow) == IF flow = "granted" THEN "youtube_v3" ELSE "raise"

\* faulty variant: a failed authentication does not stop the run
AfterAuthIgnoresFailure(r) == LoopPc(1)

\* lines 211-214: after authenticate_youtube returned r
AfterAuth(r) == IF r = "raise" THEN "done" ELSE LoopPc(1)

\* line 212
Authenticate ==
    /\ pc = "auth"
    /\ \E flow \in {"granted", "denied"} :
         LET r == authenticate_youtube(flow)
         IN  /\ authCalls' = authCalls + 1
             /\ youtube' = IF r = "raise" THEN None ELSE r
             /\ pc' = AfterAuth(r)
             /\ i' = IF AfterAuth(r) = "loop" THEN 1 ELSE i
             /\ ui' = IF r = "raise"
                      THEN Append(ui, ErrorOccurred("authenticate_youtube"))
                      ELSE ui \o LoopMsgs(1)
    /\ UNCHANGED <<movie_names, run, locals, trace, files, history>>

\* line 220
Skipping(movie_name) == Msg("error", "No trailer found for " \o movie_name \o ". Skipping...")

\* faulty variant: the missing reference is not tested
ResolveBranchNoSkip(url) == "next"

\* lines 219-222: the branch on the resolved reference
ResolveBranch(url) == IF url = None THEN "skip" ELSE "next"

\* lines 218-222
Resolve ==
    /\ pc = "loop"
    /\ \E p \in PrimaryOutcomes, s \in SecondaryOutcomes :
         LET r == get_trailer_url(movie_names[i], p, s)
             b == ResolveBranch(r.url)
         IN  /\ trailer_url' = r.url
             /\ trace' = Append(trace, Call("Resolve", r.requests,
                                            IF r.url = None THEN "none" ELSE "ok"))
             /\ IF b = "skip"
                THEN /\ ui' = ui \o r.msgs
                              \o <<Skipping(movie_names[i])>>
                              \o LoopMsgs(i + 1)
                     /\ pc' = LoopPc(i + 1)
                     /\ i' = i + 1
                ELSE /\ ui' = ui \o r.msgs
                              \o <<Msg("write", "Trailer URL: " \o r.url),
                                   Msg("write", "Downloading trailer...")>>
                     /\ pc' = AfterStage("Resolve")
                     /\ i' = i
    /\ UNCHANGED <<movie_names, run, youtube, authCalls, downloaded_video,
                   subtitled_video, enhanced_video, seo, thumbnail_path, video_id,
                   files, history>>

\* lines 80-85.  pytube names the file after the video, so the name is a
\* function of the reference; an existing file of that name is either
\* written again or left as it is ("kept").
FetchOutcomes == {"saved", "kept", "raise"}

download_path(url, output_dir) == [dir |-> output_dir, stem |-> url, ext |-> "mp4"]

download_trailer(url, env, fs) ==
    LET video_path == download_path(url, "downloads")
    IN  CASE env = "saved" -> [raised |-> FALSE, path |-> video_path, files |-> WriteFile(fs, video_path)]
          [] env = "kept" /\ video_path \in DOMAIN fs -> [raised |-> FALSE, path |-> video_path, files |-> fs]
          [] OTHER -> [raised |-> TRUE, path |-> None, files |-> fs]

\* lines 88-101
add_subtitles(video_path, subtitle_text, env, fs) ==
    LET output_path == join("edited_videos", basename(video_path))
    IN  IF env = "ok"
        THEN [raised |-> FALSE, path |-> output_path, files |-> WriteFile(fs, output_path)]
        ELSE [raised |-> TRUE, path |-> None, files |-> fs]

\* lines 104-110
enhance_video(input_path, env, fs) ==
    LET output_path == join("enhanced_videos", basename(input_path))
    IN  IF env = "ok"
        THEN [raised |-> FALSE, path |-> output_path, files |-> WriteFile(fs, output_path)]
        ELSE [raised |-> TRUE, path |-> None, files |-> fs]

\* ------------------------------------------------- generate_seo_content
SeoKeys == {"title", "description", "tags"}

\* what the text service answers: the call raises, the text does not
\* evaluate, it evaluates to something that is no mapping, or to a mapping
\* holding some of the keys
SeoResponses ==
    {[kind |-> "api_raise"], [kind |-> "eval_raise"], [kind |-> "non_mapping"]}
    \cup {[kind |-> "mapping", keys |-> K] : K \in SUBSET SeoKeys}

Unusable == {"api_raise", "eval_raise", "non_mapping"}

\* lines 134-136 and 150-152
Template(movie_name) ==
    <<movie_name \o " Official Trailer",
      "Watch the official trailer for " \o movie_name \o ".",
      <<movie_name, "movie trailer", "official trailer">>>>

Generated(k) == "generated " \o k

\* dict.get(k, default)
Get(resp, k, default) == IF k \in resp.keys THEN Generated(k) ELSE default

\* lines 115-144: the body of the outer try
seo_body(movie_name, resp) ==
    CASE resp.kind = "api_raise" -> [raised |-> TRUE, value |-> None, msgs |-> <<>>]
      [] resp.kind = "eval_raise" ->
           [raised |-> FALSE, value |-> Template(movie_name),
            msgs |-> <<Msg("error", "Invalid JSON response from OpenAI")>>]
      [] resp.kind = "non_mapping" -> [raised |-> TRUE, value |-> None, msgs |-> <<>>]
      [] OTHER ->
           [raised |-> FALSE,
            value |-> <<Get(resp, "title", Template(movie_name)[1]),
                        Get(resp, "description", Template(movie_name)[2]),
                        Get(resp, "tags", Template(movie_name)[3])>>,
            msgs |-> <<>>]

\* faulty variant: no outer except
generate_seo_content_unguarded(movie_name, resp) == seo_body(movie_name, resp)

\* lines 113-153
generate_seo_content(movie_name, resp) ==
    LET b == seo_body(movie_name, resp)
    IN  IF b.raised
        THEN [raised |-> FALSE, value |-> Template(movie_name),
              msgs |-> <<Msg("error", "Error generating SEO content using OpenAI")>>]
        ELSE b

\* ----------------------------------------------------- create_thumbnail
ThumbnailOutcomes == {"ok", "no_frame", "no_font"}

\* variant: a missing frame is answered by returning nothing
create_thumbnail_returns_none(video_path, env, fs) ==
    LET thumbnail == join("thumbnails",
                          [stem |-> splitext0(basename(video_path)), ext |-> "png"])
    IN  CASE env = "ok" ->
               [raised |-> FALSE, path |-> thumbnail, files |-> WriteFile(fs, thumbnail)]
          [] env = "no_frame" -> [raised |-> FALSE, path |-> None, files |-> fs]
          [] OTHER -> [raised |-> TRUE, path |-> None, files |-> fs]

\* faulty variant: a placeholder image is saved before the frame is read
create_thumbnail_saves_first(video_path, env, fs) ==
    LET thumbnail == join("thumbnails",
                          [stem |-> splitext0(basename(video_path)), ext |-> "png"])
    IN  [raised |-> env # "ok", path |-> IF env = "ok" THEN thumbnail ELSE None,
         files |-> WriteFile(fs, thumbnail)]

\* lines 156-167: get_frame raises when no frame can be read, truetype when
\* the font is missing; the image is saved last
create_thumbnail(video_path, env, fs) ==
    LET thumbnail == join("thumbnails",
                          [stem |-> splitext0(basename(video_path)), ext |-> "png"])
    IN  IF env = "ok"
        THEN [raised |-> FALSE, path |-> thumbnail, files |-> WriteFile(fs, thumbnail)]
        ELSE [raised |-> TRUE, path |-> None, files |-> fs]

\* ---------------------------------------------------- upload_to_youtube
\* lines 1-8: the names the module imports; MediaFileUpload is not one
MediaFileUploadDefined == FALSE

\* lines 180-199
upload_to_youtube(client, video_path, title, description, tags, env) ==
    IF ~MediaFileUploadDefined THEN "raise"
    ELSE IF env = "accept" THEN "id of " \o title
    ELSE "raise"

\* ------------------------------------------------------- the loop body
\* lines 225-227
Fetch ==
    /\ pc = "fetch"
    /\ \E env \in FetchOutcomes :
         /\ env = "kept" => download_path(trailer_url, "downloads") \in DOMAIN files
         /\ LET r == download_trailer(trailer_url, env, files)
            IN  /\ trace' = Append(trace, Call("Fetch", env,
                                               IF r.raised THEN "raise" ELSE "ok"))
                /\ files' = r.files
                /\ IF r.raised
                   THEN /\ pc' = ExceptPc
                        /\ ui' = Append(ui, ErrorOccurred("download_trailer"))
                        /\ UNCHANGED downloaded_video
                   ELSE /\ pc' = AfterStage("Fetch")
                        /\ downloaded_video' = r.path
                        /\ ui' = ui \o <<Msg("success", "Trailer downloaded"),
                                         Msg("write", "Adding subtitles...")>>
    /\ UNCHANGED <<movie_names, run, i, youtube, authCalls, trailer_url,
                   subtitled_video, enhanced_video, seo, thumbnail_path, video_id,
                   history>>

\* lines 230-232
Caption ==
    /\ pc = "caption"
    /\ \E env \in {"ok", "raise"} :
         LET r == add_subtitles(downloaded_video, movie_names[i] \o " Trailer", env, files)
         IN  /\ trace' = Append(trace, Call("Caption", env,
                                            IF r.raised THEN "raise" ELSE "ok"))
             /\ files' = r.files
             /\ IF r.raised
                THEN /\ pc' = ExceptPc
                     /\ ui' = Append(ui, ErrorOccurred("add_subtitles"))
                     /\ UNCHANGED subtitled_video
                ELSE /\ pc' = AfterStage("Caption")
                     /\ subtitled_video' = r.path
                     /\ ui' = ui \o <<Msg("success", "Subtitles added"),
                                      Msg("write", "Enhancing video quality...")>>
    /\ UNCHANGED <<movie_names, run, i, youtube, authCalls, trailer_url,
                   downloaded_video, enhanced_video, seo, thumbnail_path, video_id,
                   history>>

\* lines 235-237
Enhance ==
    /\ pc = "enhance"
    /\ \E env \in {"ok", "raise"} :
         LET r == enhance_video(subtitled_video, env, files)
         IN  /\ trace' = Append(trace, Call("Enhance", env,
                                            IF r.raised THEN "raise" ELSE "ok"))
             /\ files' = r.files
             /\ IF r.raised
                THEN /\ pc' = ExceptPc
                     /\ ui' = Append(ui, ErrorOccurred("enhance_video"))
                     /\ UNCHANGED enhanced_video
                ELSE /\ pc' = AfterStage("Enhance")
                     /\ enhanced_video' = r.path
                     /\ ui' = ui \o <<Msg("success", "Video enhanced"),
                                      Msg("write", "Generating SEO content...")>>
    /\ UNCHANGED <<movie_names, run, i, youtube, authCalls, trailer_url,
                   downloaded_video, subtitled_video, seo, thumbnail_path, video_id,
                   history>>

\* lines 240-242
Metadata ==
    /\ pc = "metadata"
    /\ \E resp \in SeoResponses :
         LET r == generate_seo_content(movie_names[i], resp)
         IN  /\ trace' = Append(trace, Call("Metadata", resp,
                                            IF r.raised THEN "raise" ELSE "ok"))
             /\ IF r.raised
                THEN /\ pc' = ExceptPc
                     /\ ui' = Append(ui \o r.msgs, ErrorOccurred("generate_seo_content"))
                     /\ UNCHANGED seo
                ELSE /\ pc' = AfterStage("Metadata")
                     /\ seo' = r.value
                     /\ ui' = ui \o r.msgs
                              \o <<Msg("write", "Generated SEO Content: " \o r.value[1]),
                                   Msg("write", "Creating thumbnail...")>>
    /\ UNCHANGED <<movie_names, run, i, youtube, authCalls, trailer_url,
                   downloaded_video, subtitled_video, enhanced_video, thumbnail_path,
                   video_id, files, history>>

\* lines 245-247
Thumbnail ==
    /\ pc = "thumbnail"
    /\ \E env \in ThumbnailOutcomes :
         LET r == create_thumbnail(enhanced_video, env, files)
         IN  /\ trace' = Append(trace, Call("Thumbnail", env,
                                            IF r.raised THEN "raise" ELSE "ok"))
             /\ files' = r.files
             /\ IF r.raised
                THEN /\ pc' = ExceptPc
                     /\ ui' = Append(ui, ErrorOccurred("create_thumbnail"))
                     /\ UNCHANGED <<thumbnail_path, history>>
                ELSE /\ pc' = AfterStage("Thumbnail")
                     /\ thumbnail_path' = r.path
                     /\ history' = Append(history,
                                          [run |-> run, movie |-> movie_names[i],
                                           downloaded |-> downloaded_video,
                                           subtitled |-> subtitled_video,
                                           enhanced |-> enhanced_video,
                                           thumbnail |-> r.path])
                     /\ ui' = ui \o <<Msg("success", "Thumbnail created"),
                                      Msg("write", "Uploading to YouTube...")>>
    /\ UNCHANGED <<movie_names, run, i, youtube, authCalls, trailer_url,
                   downloaded_video, subtitled_video, enhanced_video, seo, video_id>>

\* line 252
Uploaded(id) == Msg("success", "Uploaded to YouTube! Video ID: " \o id)

\* lines 250-252, then back to line 214
Publish ==
    /\ pc = "publish"
    /\ \E env \in {"accept", "reject"} :
         LET r == upload_to_youtube(youtube, enhanced_video, seo[1], seo[2], seo[3], env)
         IN  /\ trace' = Append(trace, Call("Publish", env,
                                            IF r = "raise" THEN "raise" ELSE "ok"))
             /\ IF r = "raise"
                THEN /\ pc' = ExceptPc
                     /\ ui' = Append(ui, ErrorOccurred("upload_to_youtube"))
                     /\ UNCHANGED <<video_id, i>>
                ELSE /\ pc' = LoopPc(i + 1)
                     /\ i' = i + 1
                     /\ video_id' = r
                     /\ ui' = Append(ui, Uploaded(r)) \o LoopMsgs(i + 1)
    /\ UNCHANGED <<movie_names, run, youtube, authCalls, trailer_url,
                   downloaded_video, subtitled_video, enhanced_video, seo,
                   thumbnail_path, files, history>>

\* lines 208-210: the button is pressed again; the script runs again from
\* the top with the same text, the page is rebuilt, the directories stay
Rerun ==
    /\ pc = "done"
    /\ run < MaxRuns
    /\ run' = run + 1
    /\ pc' = "auth"
    /\ i' = 0
    /\ youtube' = None
    /\ authCalls' = 0
    /\ trailer_url' = None
    /\ downloaded_video' = None
    /\ subtitled_video' = None
    /\ enhanced_video' = None
    /\ seo' = None
    /\ thumbnail_path' = None
    /\ video_id' = None
    /\ trace' = <<>>
    /\ ui' = <<>>
    /\ UNCHANGED <<movie_names, files, history>>

\* one triggered run
Next ==
    \/ Trigger
    \/ Authenticate
    \/ Resolve
    \/ Fetch
    \/ Caption
    \/ Enhance
    \/ Metadata
    \/ Thumbnail
    \/ Publish

Spec == Init /\ [][Next]_vars

\* the same one title, triggered up to MaxRuns times
InitRerun == Init /\ Len(movie_names) = 1

NextRerun == Next \/ Rerun

SpecRerun == InitRerun /\ [][NextRerun]_vars

\* ================================================================ claims
Calls == 1..Len(trace)

StageIndex(stage) == CHOOSE n \in 1..Len(Stages) : Stages[n] = stage

IsCall(k, stage) == trace[k].stage = stage

\* the messages of the outer except clause
HandlerErrors ==
    {ErrorOccurred(f) : f \in {"authenticate_youtube", "download_trailer", "add_subtitles",
                               "enhance_video", "generate_seo_content", "create_thumbnail",
                               "upload_to_youtube"}}

\* C1: a title whose trailer resolution returns nothing gets a skip message,
\* no stage other than Resolve is called for it, nothing is raised (the run
\* does not end in the except clause because of it), and the loop goes on to
\* the next title (or ends normally when it was the last one).
C1_SkipAndContinue ==
    \A k \in Calls :
        (IsCall(k, "Resolve") /\ trace[k].result = "none") =>
            /\ \E m \in 1..Len(ui) : ui[m] = Skipping(trace[k].movie)
            /\ \A j \in Calls : trace[j].i = trace[k].i => j = k
            /\ IF k = Len(trace)
               THEN /\ i = trace[k].i + 1
                    /\ pc = (IF i <= Len(movie_names) THEN "loop" ELSE "done")
                    /\ Last(ui) \notin HandlerErrors
               ELSE /\ IsCall(k + 1, "Resolve")
                    /\ trace[k + 1].i = trace[k].i + 1

C1_Witness ==
    /\ Len(trace) >= 3
    /\ IsCall(1, "Resolve") /\ trace[1].result = "none"
    /\ IsCall(2, "Resolve") /\ trace[2].result = "ok"
    /\ IsCall(3, "Fetch")

\* C2 (as claimed): whenever the primary lookup does not yield a trailer, the
\* secondary source is asked; get_trailer_url never returns nothing without
\* having asked it.
C2_AlwaysTriesSecondary ==
    \A k \in Calls :
        (IsCall(k, "Resolve") /\ trace[k].env[1] # <<"rottentomatoes", "found">>) =>
            \E n \in 1..Len(trace[k].env) : trace[k].env[n][1] = "youtube"

\* C3 (as claimed): when every earlier stage of a title succeeded and the
\* hosting service accepts the upload, publish returns an identifier and the
\* success is reported.
C3_PublishReportsId ==
    \A k \in Calls :
        (IsCall(k, "Publish") /\ trace[k].env = "accept") =>
            /\ trace[k].result = "ok"
            /\ \E m \in 1..Len(ui) : ui[m] = Uploaded(video_id)

\* C4: when a stage raises, the outer handler reports exactly one error
\* message, which is the last message of the run, and the raising call is the
\* last stage call of the run: nothing more for this title or a later one.
C4_AbortOnRaise ==
    \A k \in Calls :
        trace[k].result = "raise" =>
            /\ k = Len(trace)
            /\ pc = "done"
            /\ Last(ui) \in HandlerErrors
            /\ Cardinality({m \in 1..Len(ui) : ui[m] \in HandlerErrors}) = 1

C4_Witness ==
    /\ Len(trace) > 0
    /\ Last(trace).result = "raise"
    /\ Last(trace).stage = "Caption"
    /\ Last(trace).i < Len(movie_names)

\* C5: for an unusable answer of the text service (the call raises, the text
\* does not evaluate, or it evaluates to no mapping) generate_seo_content does
\* not raise and returns the templated triple of the title.
C5_TemplateFallback ==
    \A k \in Calls :
        (IsCall(k, "Metadata") /\ trace[k].env.kind \in Unusable) =>
            /\ trace[k].result = "ok"
            /\ k = Len(trace) =>
                 /\ pc = "thumbnail"
                 /\ seo = <<trace[k].movie \o " Official Trailer",
                            "Watch the official trailer for " \o trace[k].movie \o ".",
                            <<trace[k].movie, "movie trailer", "official trailer">>>>

C5_Witness ==
    /\ Len(trace) > 0
    /\ IsCall(Len(trace), "Metadata")
    /\ Last(trace).env.kind = "non_mapping"
    /\ pc = "thumbnail"

\* C6: the stage calls of a run are, title by title in input order, prefixes
\* of Resolve .. Publish: a stage follows the successful previous stage of the
\* same title; the next title starts only after a skip at Resolve or a
\* successful Publish.
C6_StageOrder ==
    /\ Len(trace) > 0 => trace[1].i = 1 /\ IsCall(1, "Resolve")
    /\ \A k \in Calls : trace[k].movie = movie_names[trace[k].i]
    /\ \A k \in 2..Len(trace) :
          LET a == trace[k - 1]
              b == trace[k]
          IN  \/ /\ b.i = a.i
                 /\ a.result = "ok"
                 /\ StageIndex(b.stage) = StageIndex(a.stage) + 1
              \/ /\ b.i = a.i + 1
                 /\ b.stage = "Resolve"
                 /\ \/ a.stage = "Resolve" /\ a.result = "none"
                    \/ a.stage = "Publish" /\ a.result = "ok"

C6_Witness ==
    /\ Len(trace) = 8
    /\ trace[1].result = "none"
    /\ IsCall(8, "Publish")

\* C7: in a triggered run authentication happens exactly once, before any
\* stage call, whatever the number of titles; a failed authentication leaves
\* the run without any stage call.
C7_AuthOnce ==
    /\ pc \in {"idle", "auth"} => authCalls = 0 /\ trace = <<>>
    /\ pc \notin {"idle", "auth"} => authCalls = 1
    /\ youtube = None => trace = <<>>

C7_Witness ==
    /\ pc = "done"
    /\ Len(movie_names) = 2
    /\ Len(trace) = 2
    /\ authCalls = 1

\* two completed items of different runs for the same title and the same
\* downloaded file
SameItemTwice(a, b) ==
    /\ a < b
    /\ history[a].run < history[b].run
    /\ history[a].movie = history[b].movie
    /\ history[a].downloaded = history[b].downloaded

Items == 1..Len(history)

\* C8 (as claimed): the second run's captioned, enhanced and thumbnail files
\* are other files than the first run's, which stay as the first run wrote
\* them.
C8_IndependentOutputs ==
    \A a, b \in Items :
        SameItemTwice(a, b) =>
            /\ history[b].subtitled # history[a].subtitled
            /\ history[b].enhanced # history[a].enhanced
            /\ history[b].thumbnail # history[a].thumbnail
            /\ files[history[a].thumbnail] = history[a].run

\* C8 (amended): the second run produces the same captioned, enhanced and
\* thumbnail paths as the first and writes over the first run's files.
C8_SameOutputsOverwritten ==
    \A a, b \in Items :
        SameItemTwice(a, b) =>
            /\ history[b].subtitled = history[a].subtitled
            /\ history[b].enhanced = history[a].enhanced
            /\ history[b].thumbnail = history[a].thumbnail
            /\ \A p \in {history[a].subtitled, history[a].enhanced, history[a].thumbnail} :
                   files[p] >= history[b].run

C8_Witness == \E a, b \in Items : SameItemTwice(a, b)

\* C9 (as claimed): when no frame can be read the thumbnail stage does not
\* raise.
C9_NoFrameReturnsNothing ==
    \A k \in Calls :
        (IsCall(k, "Thumbnail") /\ trace[k].env = "no_frame") => trace[k].result # "raise"

\* C9 (amended): when no frame can be read create_thumbnail raises: the call
\* is the last stage call of the run, the outer handler reports the error and
\* the run ends.
C9_NoFrameRaises ==
    \A k \in Calls :
        (IsCall(k, "Thumbnail") /\ trace[k].env = "no_frame") =>
            /\ trace[k].result = "raise"
            /\ k = Len(trace)
            /\ pc = "done"
            /\ Last(ui) = ErrorOccurred("create_thumbnail")

C9_Witness ==
    /\ Len(trace) > 0
    /\ IsCall(Len(trace), "Thumbnail")
    /\ Last(trace).env = "no_frame"
    /\ Last(trace).i = 2

\* C10: a step writes a file into the thumbnail directory only if it is a
\* call of create_thumbnail that read a frame; a call that could read no
\* frame writes no thumbnail file.
C10_ThumbnailOnlyWithFrame ==
    [][\A p \in DOMAIN files' :
          (p.dir = "thumbnails" /\ (p \notin DOMAIN files \/ files'[p] # files[p])) =>
              /\ pc = "thumbnail"
              /\ Last(trace').env = "ok"]_vars

C10_Witness ==
    /\ run = 2
    /\ Len(trace) > 0
    /\ IsCall(Len(trace), "Thumbnail")
    /\ Last(trace).env = "no_frame"
    /\ \E p \in DOMAIN files : p.dir = "thumbnails" /\ files[p] = 1
====
